---- MODULE Spec2Model ----
(***************************************************************************)
(* State-machine model of open_diloco/train_pure_fsdp.py: the train() loop *)
(* of every rank of a (nnodes x local_world_size) device mesh.             *)
(*                                                                         *)
(* Real numbers are fixed-point tenths (10 stands for 1.0); every product  *)
(* of two reals is rounded down to a tenth.  A tensor is one element per    *)
(* rank (the rank's shard) per parameter.  Tensors live in named storages   *)
(* so that two tensor objects sharing one storage are visible as such.     *)
(***************************************************************************)
EXTENDS Integers, Sequences, FiniteSets, TLC

\* ------------------------------------------------------------------ bounds
\* Rounds a rank runs (the loop itself never ends), parameters of the model,
\* streams of the dataset.
MaxRounds == 2
NumParams == 2
NumStreams == 3
\* Largest configuration values the setup is tried with.
MaxBatch == 8
MaxWorld == 4
MaxPerDevice == 2
MaxValue == 2
MaxEdits == 2

\* ----------------------------------------------------- environment, config
world_size == 4
local_world_size == 2
nnodes == world_size \div local_world_size
local_steps == 2
outer_lr == 7
momentum == 9
max_norm == 10
per_device_train_batch_size == 2
TotalBatchSizes == {4 * per_device_train_batch_size, 8 * per_device_train_batch_size}

Ranks == 0 .. (world_size - 1)
Params == 1 .. NumParams
Streams == 0 .. (NumStreams - 1)

\* device_mesh: rank r sits at row r \div local_world_size (its node) and
\* column r % local_world_size (its position within the node).
NodeOf(r) == r \div local_world_size
LocalPos(r) == r % local_world_size

\* init_device_mesh("cuda", (nnodes, local_world_size)): the ranks
\* 0 .. nnodes * local_world_size - 1 laid out row by row; the "global" group of
\* a rank is its column, the "local" group its row.
MeshRanks(w, lws) == 0 .. ((w \div lws) * lws - 1)
GlobalGroupOf(w, lws, r) == {s \in MeshRanks(w, lws) : s % lws = r % lws}
LocalGroupOf(w, lws, r) == {s \in MeshRanks(w, lws) : s \div lws = r \div lws}

global_pg(r) == GlobalGroupOf(world_size, local_world_size, r)
local_pg(r) == LocalGroupOf(world_size, local_world_size, r)

\* The process group FSDP shards and synchronises gradients over.
process_group_global(r) == global_pg(r)
process_group(r) == local_pg(r)

\* A collective over group g leaves the node when g has members on two nodes.
CrossNode(g) == \E a \in g, b \in g : NodeOf(a) # NodeOf(b)

\* --------------------------------------------------------------- arithmetic
RECURSIVE Sum(_, _)
Sum(f, S) == IF S = {} THEN 0
             ELSE LET x == CHOOSE y \in S : TRUE IN f[x] + Sum(f, S \ {x})

RECURSIVE IsqrtIn(_, _, _)
IsqrtIn(n, lo, hi) ==
    IF lo >= hi THEN lo
    ELSE LET mid == (lo + hi + 1) \div 2
         IN IF mid * mid <= n THEN IsqrtIn(n, mid, hi) ELSE IsqrtIn(n, lo, mid - 1)

Isqrt(n) == IsqrtIn(n, 0, n)

\* Product of two fixed-point reals.
FixMul(a, b) == (a * b) \div 10

Zeros == [p \in Params |-> 0]

VARIABLES
    total_batch_size,   \* config.total_batch_size
    dataset,            \* the dataset: which stream rank 0 reads
    pc,                 \* rank -> position in train()
    outer_step,         \* rank -> outer_step
    inner_step,         \* rank -> inner_step
    grad_acc_step,      \* rank -> grad_acc_step
    pidx,               \* rank -> parameter the loop of lines 221-226 is at
    it,                 \* rank -> batches taken from train_dataloader_iterator
    batch,              \* rank -> the current batch
    is_accumulating,    \* rank -> is_accumulating
    store,              \* rank -> storage -> parameter -> value
    param_data,         \* rank -> parameter -> storage that param.data refers to
    grad,               \* rank -> parameter -> param.grad (the rank's shard)
    acc,                \* rank -> shard owner -> parameter -> unsharded gradient kept under no_sync
    pgrad,              \* rank -> parameter -> param_offloaded.grad, <<>> when None
    momentum_buffer,    \* rank -> parameter -> outer optimizer momentum buffer
    loss_batch,         \* rank -> loss_batch
    last_epoch,         \* rank -> scheduler steps taken
    metric_log,         \* rank -> records handed to metric_logger.log
    hist,               \* rank -> history of the rank's run
    boot,               \* one process on its way through the setup of train()
    rt                  \* a write-back followed by a snapshot, on its own

vars == <<total_batch_size, dataset, pc, outer_step, inner_step, grad_acc_step, pidx, it,
          batch, is_accumulating, store, param_data, grad, acc, pgrad, momentum_buffer,
          loss_batch, last_epoch, metric_log, hist, boot, rt>>

\* ------------------------------------------------------------ configuration
batch_size == total_batch_size \div world_size
gradient_accumulation_steps == batch_size \div per_device_train_batch_size

\* ------------------------------------------------------ external collaborators
\* split_dataset_by_node: the stream rank r reads of dataset d.
StreamOf(d, r) == (d + r) % NumStreams

\* The k-th batch of stream s (the dataset is fixed input; batches are opaque ids).
BatchAt(s, k) == ((s + 1) * (k + 1)) % 3

\* outputs.loss of a batch, and d(outputs.loss)/d(parameter p, shard of rank t).
LossOf(b) == 20 * (b + 1)
GradOf(b, t, p) == 40 * (b - 1) * (1 + ((t + p) % 2))

\* ------------------------------------------------------------------- tensors
Storages == {"model", "cpu_model"}
\* The device get_offloaded_param puts the copies on.
offload_device == "cuda"

\* torch.Tensor.to(device): the tensor itself when it already is on the device,
\* a copy otherwise.
ToReturnsSelf(have, want) == have = want

Live(r, p) == store[r][param_data[r][p]][p]
Offloaded(r, p) == store[r]["cpu_model"][p]

\* Line 112, .clone(): the storage the copy of a tensor held in storage st gets.
CloneShared(st) == st
Clone(st) == "cpu_model"

\* get_offloaded_param: a clone of every parameter, in a storage of its own.
get_offloaded_param(values) == [p \in Params |-> values[p]]

InitialParams == [p \in Params |-> 10 * p]

\* ---------------------------------------------------------------- operators
\* for grad_acc_step in range(gradient_accumulation_steps): another iteration follows.
MoreMicroStepsInclusive(step) == step < gradient_accumulation_steps
MoreMicroSteps(step) == step + 1 < gradient_accumulation_steps

\* for inner_step in range(config.diloco.local_steps): another iteration follows.
MoreInnerSteps(step) == step + 1 < local_steps

\* is_accumulating = grad_acc_step < gradient_accumulation_steps - 1
IsAccumulatingAlways(step, steps) == step < steps
IsAccumulating(step, steps) == step < steps - 1

\* Gradient of (outputs.loss / gradient_accumulation_steps) computed by rank s
\* on its batch, for the shard of rank t.
MicroGrad(s, t, p) == GradOf(batch[s], t, p) \div gradient_accumulation_steps

\* backward() under no_sync: the new gradient is added to the one kept locally.
NoSyncBackwardOverwrite(kept, new) == new
NoSyncBackward(kept, new) == kept + new

\* backward() outside no_sync: reduce-scatter (average) over group g of what
\* each member holds for the shard of rank t.
ReduceScatter(held, t, p, g) == Sum([s \in g |-> held[s][t][p]], g) \div Cardinality(g)

\* clip_grad_norm_: the norm over every shard of the group, then the rescaling.
TotalNorm(grads, g) ==
    Isqrt(Sum([s \in g |-> Sum([p \in Params |-> grads[s][p] * grads[s][p]], Params)], g))
ClipTo(x, norm) == IF norm <= max_norm THEN x ELSE (x * max_norm) \div norm

\* inner_optimizer.step(): in-place update of the tensor param.data refers to.
\* AdamW's moment estimates and learning rate are left out: the update is the
\* clipped gradient.
AdamWStep(x, g) == x - g

\* outer_optimizer.step(): SGD with momentum and Nesterov correction, no
\* dampening (the first step's buffer is the gradient, as from a zero buffer).
SGDBuffer(buf, g) == FixMul(momentum, buf) + g
SGDStep(x, buf, g) == x - FixMul(outer_lr, g + FixMul(momentum, SGDBuffer(buf, g)))

\* dist.all_reduce(..., group=global_pg)
all_reduce_group_self(r) == {r}
all_reduce_group(r) == global_pg(r)

\* outer_step += 1
OuterStepAfter(o) == o + 1

RealStepNoOffset(o, i) == o * local_steps + i
RealStep(o, i) == o * local_steps + i + 1

\* Lines 170 and 201: `if rank == 0`, the rank that owns the metric logger.
LogsMetricsAll(r) == TRUE
LogsMetrics(r) == r = 0

\* Line 185: next(train_dataloader_iterator) returns the batch at position k of
\* the rank's stream; the stream of get_dataloader does not end.
HasNextBatchShort(k) == k < local_steps
HasNextBatch(k) == TRUE

\* Line 179: `while True`, the condition under which another round follows.
LoopConditionOnce(o) == o < 1
LoopCondition(o) == TRUE

\* Line 229: outer_optimizer.zero_grad() leaves a parameter without gradient.
ZeroGradKeep(g) == g
ZeroGrad(g) == <<>>

\* Line 215: loss_batch = 0 after every inner optimizer step.
LossBatchKeep(l) == l
LossBatchReset(l) == 0

\* The setup and the round trip at rest, while the training loop runs.
BootIdle ==
    [rank |-> 0, world_size |-> world_size, local_world_size |-> local_world_size,
     total_batch_size |-> total_batch_size, per_device |-> per_device_train_batch_size,
     pc |-> "training", error |-> "", batch_size |-> batch_size,
     gas |-> gradient_accumulation_steps, nnodes |-> nnodes,
     groups_built |-> TRUE, global_pg |-> global_pg(0), local_pg |-> local_pg(0)]
RtIdle == [pc |-> "idle"]

\* ---------------------------------------------------------------------- Init
InitHist ==
    [micros |-> 0, deferred |-> 0, inners |-> 0, syncs |-> 0, writebacks |-> 0, inner_total |-> 0,
     global_calls |-> 0, round_calls |-> Zeros, communicated |-> FALSE,
     snapshot |-> get_offloaded_param(InitialParams),
     synced |-> get_offloaded_param(InitialParams),
     round_live |-> InitialParams,
     refgrad |-> Zeros, seen_grad |-> Zeros, seen_ref |-> Zeros,
     step_batches |-> <<>>, step_log |-> <<>>, zeroed |-> 0]

\* Lines 155-178: the state every rank enters the loop with.
LoopInit ==
    /\ pc = [r \in Ranks |-> "batch"]
    /\ outer_step = [r \in Ranks |-> 0]
    /\ inner_step = [r \in Ranks |-> 0]
    /\ grad_acc_step = [r \in Ranks |-> 0]
    /\ pidx = [r \in Ranks |-> 1]
    /\ it = [r \in Ranks |-> 0]
    /\ batch = [r \in Ranks |-> 0]
    /\ is_accumulating = [r \in Ranks |-> FALSE]
    /\ store = [r \in Ranks |->
                  [st \in Storages |->
                      IF st = "model" THEN InitialParams
                      ELSE get_offloaded_param(InitialParams)]]
    /\ param_data = [r \in Ranks |-> [p \in Params |-> "model"]]
    /\ grad = [r \in Ranks |-> Zeros]
    /\ acc = [r \in Ranks |-> [t \in Ranks |-> Zeros]]
    /\ pgrad = [r \in Ranks |-> [p \in Params |-> <<>>]]
    /\ momentum_buffer = [r \in Ranks |-> Zeros]
    /\ loss_batch = [r \in Ranks |-> 0]
    /\ last_epoch = [r \in Ranks |-> 0]
    /\ metric_log = [r \in Ranks |-> <<>>]
    /\ hist = [r \in Ranks |-> InitHist]

Init ==
    /\ total_batch_size \in TotalBatchSizes
    /\ total_batch_size % world_size = 0
    /\ batch_size % per_device_train_batch_size = 0
    /\ dataset \in Streams
    /\ LoopInit
    /\ boot = BootIdle
    /\ rt = RtIdle

\* ------------------------------------------------------------------- actions
\* Lines 184-188: the next batch of the rank's dataloader.
NextBatch(r) ==
    /\ pc[r] = "batch"
    /\ outer_step[r] < MaxRounds
    /\ HasNextBatch(it[r])
    /\ is_accumulating' =
          [is_accumulating EXCEPT ![r] = IsAccumulating(grad_acc_step[r], gradient_accumulation_steps)]
    /\ batch' = [batch EXCEPT ![r] = BatchAt(StreamOf(dataset, r), it[r])]
    /\ it' = [it EXCEPT ![r] = @ + 1]
    /\ pc' = [pc EXCEPT ![r] = "forward"]
    /\ UNCHANGED <<boot, rt, total_batch_size, dataset, outer_step, inner_step, grad_acc_step, pidx,
                   store, param_data, grad, acc, pgrad, momentum_buffer, loss_batch,
                   last_epoch, metric_log, hist>>

\* Lines 190-194: forward and backward of one micro-step.  The forward gathers
\* the shards of the FSDP process group, so the members run it together.
ForwardBackward(r) ==
    LET g == process_group(r)
        held == [s \in g |-> [t \in Ranks |-> [p \in Params |->
                    NoSyncBackward(acc[s][t][p], MicroGrad(s, t, p))]]]
        now == [s \in g |-> [t \in Ranks |-> [p \in Params |-> MicroGrad(s, t, p)]]]
    IN
    /\ r = CHOOSE m \in g : \A s \in g : m <= s
    /\ \A s \in g : pc[s] = "forward"
    /\ acc' = [s \in Ranks |->
                  IF s \notin g THEN acc[s]
                  ELSE IF is_accumulating[s] THEN held[s]
                  ELSE [t \in Ranks |-> Zeros]]
    /\ grad' = [s \in Ranks |->
                  IF s \notin g \/ is_accumulating[s] THEN grad[s]
                  ELSE [p \in Params |-> grad[s][p] + ReduceScatter(held, s, p, g)]]
    /\ loss_batch' = [s \in Ranks |->
                  IF s \in g THEN loss_batch[s] + (LossOf(batch[s]) \div gradient_accumulation_steps)
                  ELSE loss_batch[s]]
    /\ grad_acc_step' = [s \in Ranks |->
                  IF s \in g /\ MoreMicroSteps(grad_acc_step[s])
                  THEN grad_acc_step[s] + 1 ELSE grad_acc_step[s]]
    /\ pc' = [s \in Ranks |->
                  IF s \notin g THEN pc[s]
                  ELSE IF MoreMicroSteps(grad_acc_step[s]) THEN "batch"
                  ELSE "clip"]
    /\ hist' = [s \in Ranks |->
                  IF s \notin g THEN hist[s]
                  ELSE [hist[s] EXCEPT
                          !.micros = @ + 1,
                          !.deferred = @ + (IF is_accumulating[s] THEN 1 ELSE 0),
                          !.communicated = ~is_accumulating[s],
                          !.step_batches = Append(@, batch[s]),
                          !.global_calls = @ + (IF CrossNode(g) THEN 1 ELSE 0),
                          !.refgrad = [p \in Params |-> @[p] + ReduceScatter(now, s, p, g)]]]
    /\ UNCHANGED <<boot, rt, total_batch_size, dataset, outer_step, inner_step, pidx, it, batch,
                   is_accumulating, store, param_data, pgrad, momentum_buffer,
                   last_epoch, metric_log>>

\* Line 196: model.clip_grad_norm_(1.0), a collective of the FSDP process group.
ClipGradNorm(r) ==
    LET g == process_group(r)
        norm == TotalNorm(grad, g)
        refnorm == TotalNorm([s \in g |-> hist[s].refgrad], g)
    IN
    /\ r = CHOOSE m \in g : \A s \in g : m <= s
    /\ \A s \in g : pc[s] = "clip"
    /\ grad' = [s \in Ranks |->
                  IF s \in g THEN [p \in Params |-> ClipTo(grad[s][p], norm)] ELSE grad[s]]
    /\ pc' = [s \in Ranks |-> IF s \in g THEN "inner_step" ELSE pc[s]]
    /\ hist' = [s \in Ranks |->
                  IF s \notin g THEN hist[s]
                  ELSE [hist[s] EXCEPT
                          !.global_calls = @ + (IF CrossNode(g) THEN 1 ELSE 0),
                          !.refgrad = [p \in Params |-> ClipTo(@[p], refnorm)]]]
    /\ UNCHANGED <<boot, rt, total_batch_size, dataset, outer_step, inner_step, grad_acc_step, pidx,
                   it, batch, is_accumulating, store, param_data, acc, pgrad,
                   momentum_buffer, loss_batch, last_epoch, metric_log>>

\* Lines 197-215: inner_optimizer.step(), scheduler.step(), zero_grad(), the
\* metric record of rank 0, loss_batch = 0, and the loop control of line 182.
InnerOptimizerStep(r) ==
    LET more == MoreInnerSteps(inner_step[r]) IN
    /\ pc[r] = "inner_step"
    /\ store' = [store EXCEPT ![r] =
                   [st \in Storages |-> [p \in Params |->
                       IF param_data[r][p] = st THEN AdamWStep(store[r][st][p], grad[r][p])
                       ELSE store[r][st][p]]]]
    /\ last_epoch' = [last_epoch EXCEPT ![r] = @ + 1]
    /\ grad' = [grad EXCEPT ![r] = Zeros]
    /\ metric_log' = [metric_log EXCEPT ![r] =
                        IF LogsMetrics(r)
                        THEN Append(@, [Loss |-> loss_batch[r],
                                        step |-> RealStep(outer_step[r], inner_step[r])])
                        ELSE @]
    /\ loss_batch' = [loss_batch EXCEPT ![r] = LossBatchReset(@)]
    /\ inner_step' = [inner_step EXCEPT ![r] = IF more THEN @ + 1 ELSE @]
    /\ grad_acc_step' = [grad_acc_step EXCEPT ![r] = IF more THEN 0 ELSE @]
    /\ pidx' = [pidx EXCEPT ![r] = 1]
    /\ pc' = [pc EXCEPT ![r] = IF more THEN "batch" ELSE "pseudo_grad"]
    /\ hist' = [hist EXCEPT ![r] =
                  [@ EXCEPT !.micros = 0,
                            !.deferred = 0,
                            !.inners = @ + 1,
                            !.inner_total = @ + 1,
                            !.step_batches = <<>>,
                            !.step_log = Append(@, hist[r].step_batches),
                            !.seen_grad = grad[r],
                            !.seen_ref = hist[r].refgrad,
                            !.refgrad = Zeros]]
    /\ UNCHANGED <<boot, rt, total_batch_size, dataset, outer_step, it, batch, is_accumulating,
                   param_data, acc, pgrad, momentum_buffer>>

\* Line 225: param_offloaded.grad = param_offloaded.data - param.data.
PseudoGradient(r) ==
    /\ pc[r] = "pseudo_grad"
    /\ pgrad' = [pgrad EXCEPT ![r][pidx[r]] = <<Offloaded(r, pidx[r]) - Live(r, pidx[r])>>]
    /\ pc' = [pc EXCEPT ![r] = "all_reduce"]
    /\ UNCHANGED <<boot, rt, total_batch_size, dataset, outer_step, inner_step, grad_acc_step, pidx, it,
                   batch, is_accumulating, store, param_data, grad, acc, momentum_buffer,
                   loss_batch, last_epoch, metric_log, hist>>

\* Line 226: dist.all_reduce(param_offloaded.grad, AVG, group=global_pg), and the
\* loop control of line 221.  It completes for every member of the group at once.
AllReduce(r) ==
    LET g == all_reduce_group(r)
        p == pidx[r]
        avg == Sum([s \in g |-> pgrad[s][p][1]], g) \div Cardinality(g)
    IN
    /\ r = CHOOSE m \in g : \A s \in g : m <= s
    /\ \A s \in g : pc[s] = "all_reduce" /\ pidx[s] = p
    /\ pgrad' = [s \in Ranks |-> IF s \in g THEN [pgrad[s] EXCEPT ![p] = <<avg>>] ELSE pgrad[s]]
    /\ pidx' = [s \in Ranks |-> IF s \in g /\ p < NumParams THEN p + 1 ELSE pidx[s]]
    /\ pc' = [s \in Ranks |->
                 IF s \notin g THEN pc[s]
                 ELSE IF p < NumParams THEN "pseudo_grad" ELSE "outer_step"]
    /\ hist' = [s \in Ranks |->
                  IF s \notin g THEN hist[s]
                  ELSE [hist[s] EXCEPT
                          !.global_calls = @ + (IF CrossNode(g) THEN 1 ELSE 0),
                          !.round_calls[p] = @ + 1]]
    /\ UNCHANGED <<boot, rt, total_batch_size, dataset, outer_step, inner_step, grad_acc_step, it,
                   batch, is_accumulating, store, param_data, grad, acc, momentum_buffer,
                   loss_batch, last_epoch, metric_log>>

\* Line 228: outer_optimizer.step(), in place on the offloaded tensors.
OuterOptimizerStep(r) ==
    LET new == [p \in Params |-> SGDStep(Offloaded(r, p), momentum_buffer[r][p], pgrad[r][p][1])] IN
    /\ pc[r] = "outer_step"
    /\ store' = [store EXCEPT ![r]["cpu_model"] = new]
    /\ momentum_buffer' = [momentum_buffer EXCEPT ![r] =
                             [p \in Params |-> SGDBuffer(@[p], pgrad[r][p][1])]]
    /\ pc' = [pc EXCEPT ![r] = "zero_grad"]
    /\ hist' = [hist EXCEPT ![r] = [@ EXCEPT !.syncs = @ + 1, !.synced = new]]
    /\ UNCHANGED <<boot, rt, total_batch_size, dataset, outer_step, inner_step, grad_acc_step, pidx, it,
                   batch, is_accumulating, param_data, grad, acc, pgrad, loss_batch,
                   last_epoch, metric_log>>

\* Line 229: outer_optimizer.zero_grad().
OuterZeroGrad(r) ==
    /\ pc[r] = "zero_grad"
    /\ pgrad' = [pgrad EXCEPT ![r] = [p \in Params |-> ZeroGrad(@[p])]]
    /\ pc' = [pc EXCEPT ![r] = "write_back"]
    /\ hist' = [hist EXCEPT ![r] = [@ EXCEPT !.zeroed = @ + 1]]
    /\ UNCHANGED <<boot, rt, total_batch_size, dataset, outer_step, inner_step, grad_acc_step, pidx, it,
                   batch, is_accumulating, store, param_data, grad, acc, momentum_buffer,
                   loss_batch, last_epoch, metric_log>>

\* Lines 231-232: param.data = param_offloaded.data.to("cuda").  When .to returns
\* the offloaded tensor itself, param.data refers to its storage from here on.
WriteBack(r) ==
    LET same == ToReturnsSelf(offload_device, "cuda") IN
    /\ pc[r] = "write_back"
    /\ param_data' = [param_data EXCEPT ![r] =
                        [p \in Params |-> IF same THEN "cpu_model" ELSE "model"]]
    /\ store' = [store EXCEPT ![r]["model"] =
                   IF same THEN @ ELSE [p \in Params |-> Offloaded(r, p)]]
    /\ pc' = [pc EXCEPT ![r] = "increment"]
    /\ hist' = [hist EXCEPT ![r] =
                  [@ EXCEPT !.writebacks = @ + 1,
                            !.inners = 0,
                            !.round_calls = Zeros,
                            !.snapshot = [p \in Params |-> Offloaded(r, p)],
                            !.round_live = [p \in Params |-> Offloaded(r, p)]]]
    /\ UNCHANGED <<boot, rt, total_batch_size, dataset, outer_step, inner_step, grad_acc_step, pidx, it,
                   batch, is_accumulating, grad, acc, pgrad, momentum_buffer, loss_batch,
                   last_epoch, metric_log>>

\* Line 234: outer_step += 1, then the loop heads of lines 179-183.
IncrementOuterStep(r) ==
    /\ pc[r] = "increment"
    /\ outer_step' = [outer_step EXCEPT ![r] = OuterStepAfter(@)]
    /\ inner_step' = [inner_step EXCEPT ![r] = 0]
    /\ grad_acc_step' = [grad_acc_step EXCEPT ![r] = 0]
    /\ pc' = [pc EXCEPT ![r] =
                 IF LoopCondition(OuterStepAfter(outer_step[r])) THEN "batch" ELSE "finish"]
    /\ UNCHANGED <<boot, rt, total_batch_size, dataset, pidx, it, batch, is_accumulating, store,
                   param_data, grad, acc, pgrad, momentum_buffer, loss_batch, last_epoch,
                   metric_log, hist>>

Next ==
    \E r \in Ranks :
        \/ NextBatch(r)
        \/ ForwardBackward(r)
        \/ ClipGradNorm(r)
        \/ InnerOptimizerStep(r)
        \/ PseudoGradient(r)
        \/ AllReduce(r)
        \/ OuterOptimizerStep(r)
        \/ OuterZeroGrad(r)
        \/ WriteBack(r)
        \/ IncrementOuterStep(r)

Spec == Init /\ [][Next]_vars

\* The steps of one rank's process; a collective is the step of the lowest
\* rank of its group, taken when every member has arrived.
RankStep(r) ==
    \/ NextBatch(r)
    \/ ForwardBackward(r)
    \/ ClipGradNorm(r)
    \/ InnerOptimizerStep(r)
    \/ PseudoGradient(r)
    \/ AllReduce(r)
    \/ OuterOptimizerStep(r)
    \/ OuterZeroGrad(r)
    \/ WriteBack(r)
    \/ IncrementOuterStep(r)

\* Every rank is a process of its own that runs whenever it can.  Which batches
\* the streams hold has no part in the control flow: one dataset stands for all.
InitFair == Init /\ dataset = 0
FairSpec == InitFair /\ [][Next]_vars /\ \A r \in Ranks : WF_vars(RankStep(r))

\* ================================================================== the setup
\* Lines 117-178 of train(), for one process: its environment (RANK,
\* WORLD_SIZE, LOCAL_WORLD_SIZE) and its configuration are the inputs.
loopvars == <<total_batch_size, dataset, pc, outer_step, inner_step, grad_acc_step, pidx, it,
              batch, is_accumulating, store, param_data, grad, acc, pgrad, momentum_buffer,
              loss_batch, last_epoch, metric_log, hist>>

BootStart(t, w, lws, p, r) ==
    [rank |-> r, world_size |-> w, local_world_size |-> lws,
     total_batch_size |-> t, per_device |-> p,
     pc |-> "assert_world", error |-> "", batch_size |-> 0, gas |-> 0, nnodes |-> 0,
     groups_built |-> FALSE, global_pg |-> {}, local_pg |-> {}]

InitSetup ==
    /\ \E t \in 0 .. MaxBatch, w \in 1 .. MaxWorld, p \in 0 .. MaxPerDevice :
         \E lws \in 1 .. w, r \in 0 .. (w - 1) :
            boot = BootStart(t, w, lws, p, r)
    /\ total_batch_size = boot.total_batch_size
    /\ dataset = 0
    /\ LoopInit
    /\ rt = RtIdle

\* Lines 122-123: assert config.total_batch_size % world_size == 0.
AssertWorldSize ==
    /\ boot.pc = "assert_world"
    /\ boot' = IF boot.total_batch_size % boot.world_size = 0
               THEN [boot EXCEPT !.batch_size = boot.total_batch_size \div boot.world_size,
                                 !.pc = "assert_device"]
               ELSE [boot EXCEPT !.pc = "failed", !.error = "AssertionError"]
    /\ UNCHANGED <<loopvars, rt>>

\* Lines 125-126: assert batch_size % config.per_device_train_batch_size == 0.
AssertPerDevice ==
    /\ boot.pc = "assert_device"
    /\ boot' = IF boot.per_device = 0
               THEN [boot EXCEPT !.pc = "failed", !.error = "ZeroDivisionError"]
               ELSE IF boot.batch_size % boot.per_device = 0
               THEN [boot EXCEPT !.gas = boot.batch_size \div boot.per_device,
                                 !.pc = "device_mesh"]
               ELSE [boot EXCEPT !.pc = "failed", !.error = "AssertionError"]
    /\ UNCHANGED <<loopvars, rt>>

\* Lines 136-138: nnodes = world_size // local_world_size and init_device_mesh,
\* which builds the process groups of the mesh.
InitDeviceMesh ==
    /\ boot.pc = "device_mesh"
    /\ boot' = [boot EXCEPT !.nnodes = boot.world_size \div boot.local_world_size,
                            !.groups_built = TRUE,
                            !.pc = "get_group"]
    /\ UNCHANGED <<loopvars, rt>>

\* Line 138, when the library refuses the host (its device count).
InitDeviceMeshRefused ==
    /\ boot.pc = "device_mesh"
    /\ boot' = [boot EXCEPT !.pc = "failed", !.error = "RuntimeError"]
    /\ UNCHANGED <<loopvars, rt>>

\* Lines 140-142: the groups of this rank; a rank the mesh does not hold has none.
GetGroup ==
    /\ boot.pc = "get_group"
    /\ boot' = IF boot.rank \in MeshRanks(boot.world_size, boot.local_world_size)
               THEN [boot EXCEPT
                       !.global_pg = GlobalGroupOf(boot.world_size, boot.local_world_size, boot.rank),
                       !.local_pg = LocalGroupOf(boot.world_size, boot.local_world_size, boot.rank),
                       !.pc = "ready"]
               ELSE [boot EXCEPT !.pc = "failed", !.error = "IndexError"]
    /\ UNCHANGED <<loopvars, rt>>

\* Lines 144-178: FSDP, optimizers, logger; the process enters the loop.
EnterLoop ==
    /\ boot.pc = "ready"
    /\ boot' = [boot EXCEPT !.pc = "training"]
    /\ UNCHANGED <<loopvars, rt>>

NextSetup ==
    \/ AssertWorldSize
    \/ AssertPerDevice
    \/ InitDeviceMesh
    \/ InitDeviceMeshRefused
    \/ GetGroup
    \/ EnterLoop

SpecSetup == InitSetup /\ [][NextSetup]_vars

\* ============================================================ the round trip
\* The write-back of lines 231-232 applied to a full parameter value x, then
\* the snapshot of lines 111-112, then in-place changes of the live parameters.
\* x is a tensor of its own, on either device; the live model is on cuda.
FullValues == [Params -> {10 * v : v \in 0 .. MaxValue}]

RtStart(x, dev) ==
    [pc |-> "apply", x_device |-> dev, x0 |-> x,
     tensors |-> [st \in Storages \cup {"x"} |-> IF st = "x" THEN x ELSE InitialParams],
     data |-> "model", snap |-> "none", edits |-> 0]

RtLive == rt.tensors[rt.data]

InitRoundTrip ==
    /\ \E x \in FullValues, dev \in {"cuda", "cpu"} : rt = RtStart(x, dev)
    /\ total_batch_size = MaxBatch
    /\ dataset = 0
    /\ LoopInit
    /\ boot = BootIdle

\* Lines 231-232: param.data = x.to("cuda").
ApplyFullParameters ==
    LET same == ToReturnsSelf(rt.x_device, "cuda") IN
    /\ rt.pc = "apply"
    /\ rt' = [rt EXCEPT !.pc = "snapshot",
                        !.data = IF same THEN "x" ELSE "model",
                        !.tensors["model"] = IF same THEN @ ELSE rt.tensors["x"]]
    /\ UNCHANGED <<loopvars, boot>>

\* Lines 111-112: [param.data.detach().clone().to("cuda") for param in ...].
\* The clone is on the device of the live model, so .to("cuda") returns it.
SnapshotFullParameters ==
    LET to == Clone(rt.data) IN
    /\ rt.pc = "snapshot"
    /\ rt' = [rt EXCEPT !.pc = "train",
                        !.snap = to,
                        !.tensors[to] = get_offloaded_param(RtLive)]
    /\ UNCHANGED <<loopvars, boot>>

\* Line 197: inner_optimizer.step() changes param.data in place.
LiveUpdate ==
    /\ rt.pc = "train"
    /\ rt.edits < MaxEdits
    /\ \E p \in Params, g \in {-10, 10} :
          rt' = [rt EXCEPT !.edits = @ + 1,
                           !.tensors[rt.data][p] = AdamWStep(@, g)]
    /\ UNCHANGED <<loopvars, boot>>

NextRoundTrip ==
    \/ ApplyFullParameters
    \/ SnapshotFullParameters
    \/ LiveUpdate

SpecRoundTrip == InitRoundTrip /\ [][NextRoundTrip]_vars

\* ============================================================ claims C1 - C4
InnerPhase == {"batch", "forward", "clip", "inner_step"}

\* C1: after every completed outer synchronization (all-reduce over the global
\* group, then the outer optimizer step), the members of one global group that
\* have completed the same number of synchronizations hold identical offloaded
\* parameter values, however far their live parameters diverged before.
C1_OffloadedIdenticalAfterSync ==
    \A r \in Ranks : \A s \in global_pg(r) :
        hist[r].syncs = hist[s].syncs => hist[r].synced = hist[s].synced

\* C2: immediately after the write-back that ends a round every live parameter
\* of a rank equals its offloaded value, and the live parameters the members of
\* one global group start the same round with are identical.
C2_LiveConsistentAfterWriteBack ==
    /\ \A r \in Ranks : pc[r] = "increment" =>
           \A p \in Params : Live(r, p) = Offloaded(r, p)
    /\ \A r \in Ranks : \A s \in global_pg(r) :
           hist[r].writebacks = hist[s].writebacks => hist[r].round_live = hist[s].round_live

\* C3: the offloaded copy is independent of the live copy: an offloaded value
\* changes only in the outer optimizer step, never in a micro-step or an inner
\* optimizer step, in the first round and in every round after a write-back.
C3_OffloadedChangesOnlyInOuterStep ==
    [][\A r \in Ranks : \A p \in Params :
          store'[r]["cpu_model"][p] # store[r]["cpu_model"][p] => pc[r] = "outer_step"]_vars

\* C4: the pseudo-gradient a rank contributes to the all-reduce equals the
\* offloaded snapshot the round started from minus the live value after the
\* round's last inner step, for every parameter and in every round.
C4_PseudoGradientIsSnapshotMinusLive ==
    \A r \in Ranks :
        pc[r] = "all_reduce" =>
            pgrad[r][pidx[r]] = <<hist[r].snapshot[pidx[r]] - Live(r, pidx[r])>>

\* =========================================================== claims C5 - C10
\* What the spec fixes: micro-steps per inner step, from the configuration.
ExpectedMicroSteps == total_batch_size \div (world_size * per_device_train_batch_size)

RoundTransitions ==
    {<<"batch", "forward">>, <<"forward", "batch">>, <<"forward", "clip">>,
     <<"clip", "inner_step">>, <<"inner_step", "batch">>, <<"inner_step", "pseudo_grad">>,
     <<"pseudo_grad", "all_reduce">>, <<"all_reduce", "pseudo_grad">>,
     <<"all_reduce", "outer_step">>, <<"outer_step", "zero_grad">>,
     <<"zero_grad", "write_back">>, <<"write_back", "increment">>,
     <<"increment", "batch">>}

C5_Positions ==
    \A r \in Ranks :
        /\ pc[r] \in {"batch", "forward"} =>
               /\ hist[r].micros < ExpectedMicroSteps
               /\ hist[r].inners < local_steps
        /\ pc[r] \in {"clip", "inner_step"} =>
               /\ hist[r].micros = ExpectedMicroSteps
               /\ hist[r].inners < local_steps
        /\ pc[r] \in {"pseudo_grad", "all_reduce", "outer_step", "zero_grad", "write_back"} =>
               /\ hist[r].micros = 0
               /\ hist[r].inners = local_steps
        /\ pc[r] = "increment" => hist[r].micros = 0 /\ hist[r].inners = 0

\* C5: every rank follows the round state machine: an inner optimizer step
\* comes after exactly gradient_accumulation_steps micro-steps since the
\* previous one, an outer synchronization after exactly local_steps inner
\* optimizer steps since the previous one, after it the rank accumulates
\* again, and a rank moves only along the transitions of that machine.
C5_RoundStateMachine ==
    /\ [] C5_Positions
    /\ [][\A r \in Ranks : pc'[r] # pc[r] => <<pc[r], pc'[r]>> \in RoundTransitions]_vars

C5_Witness ==
    \E r \in Ranks :
        /\ ExpectedMicroSteps = 2
        /\ pc[r] = "pseudo_grad"
        /\ outer_step[r] = 1

\* C6: outer_step is the number of outer synchronizations the rank has
\* completed, the j-th metric record carries step = j, and after k full rounds
\* outer_step = k and the last reported step is k * local_steps.
C6_StepCounting ==
    /\ \A r \in Ranks :
           outer_step[r] = hist[r].writebacks - (IF pc[r] = "increment" THEN 1 ELSE 0)
    /\ Len(metric_log[0]) = hist[0].inner_total
    /\ \A j \in 1 .. Len(metric_log[0]) : metric_log[0][j].step = j
    /\ (pc[0] = "batch" /\ hist[0].inners = 0 /\ hist[0].micros = 0 /\ outer_step[0] > 0) =>
           metric_log[0][Len(metric_log[0])].step = outer_step[0] * local_steps

C6_Witness ==
    /\ outer_step[0] = 2
    /\ Len(metric_log[0]) = 2 * local_steps

\* Collectives a rank has issued that left its node, and all-reduces of the
\* current round.
RoundCalls(r) == Sum(hist[r].round_calls, Params)

\* C7: the pseudo-gradient all-reduce is the only cross-node communication: a
\* rank's cross-node collectives are exactly one all-reduce per parameter per
\* round, none is issued during micro-steps, clipping or inner optimizer steps,
\* and every round's all-reduces come after exactly local_steps inner steps.
C7_OnlyAllReduceCrossesNodes ==
    \A r \in Ranks :
        /\ hist[r].global_calls = NumParams * hist[r].writebacks + RoundCalls(r)
        /\ \A p \in Params : hist[r].round_calls[p] <= 1
        /\ pc[r] \in InnerPhase \cup {"increment"} => RoundCalls(r) = 0
        /\ pc[r] \in {"outer_step", "zero_grad", "write_back"} => RoundCalls(r) = NumParams
        /\ RoundCalls(r) > 0 => hist[r].inners = local_steps

C7_Witness ==
    \E r \in Ranks :
        /\ hist[r].global_calls = 2 * NumParams
        /\ hist[r].inner_total = 2 * local_steps

\* Rounds whose all-reduce a rank has completed (for at least one parameter).
RoundsReduced(r) == hist[r].writebacks + (IF RoundCalls(r) > 0 THEN 1 ELSE 0)

\* C8: collectives are barriers: when a rank has completed the all-reduce of
\* round k every member of its global group has done the local_steps inner
\* steps of round k and that all-reduce; the outer_step of two ranks never
\* differ by more than 1, and no rank gets more than one round of inner steps
\* ahead of any other rank (so a rank that stops holds all others back).
C8_CollectivesAreBarriers ==
    /\ \A r \in Ranks : \A s \in global_pg(r) :
           /\ hist[s].inner_total >= RoundsReduced(r) * local_steps
           /\ RoundsReduced(s) = RoundsReduced(r)
    /\ \A r \in Ranks : \A s \in Ranks :
           /\ outer_step[r] <= outer_step[s] + 1
           /\ hist[r].inner_total <= hist[s].inner_total + local_steps

C8_Witness ==
    \E r \in Ranks : \E s \in Ranks :
        /\ outer_step[r] = 2
        /\ outer_step[s] = 1
        /\ pc[s] = "outer_step"

\* C9: deferring the gradient synchronization of the first
\* gradient_accumulation_steps - 1 micro-steps never changes the gradient the
\* inner optimizer step sees: it equals the gradient of a run that
\* synchronizes on every micro-step; with gradient_accumulation_steps = 1
\* nothing is ever deferred.
C9_DeferredModeSameGradients ==
    \A r \in Ranks :
        /\ pc[r] \in {"clip", "inner_step"} => grad[r] = hist[r].refgrad
        /\ hist[r].seen_grad = hist[r].seen_ref
        /\ ExpectedMicroSteps = 1 =>
               /\ ~is_accumulating[r]
               /\ hist[r].deferred = 0
               /\ acc[r] = [t \in Ranks |-> Zeros]

C9_Witness ==
    \E r \in Ranks :
        /\ ExpectedMicroSteps = 2
        /\ pc[r] = "inner_step"
        /\ hist[r].deferred = 1
        /\ grad[r] # Zeros
        /\ hist[r].seen_grad # Zeros

\* C10: in every inner iteration the first gradient_accumulation_steps - 1
\* micro-steps run deferred and the last one communicates, so the clip and the
\* inner optimizer step come right after a communicating micro-step; and an
\* inner iteration starts from zeroed gradients.
C10_LastMicroStepCommunicates ==
    \A r \in Ranks :
        /\ pc[r] \in {"batch", "forward"} => hist[r].deferred = hist[r].micros
        /\ pc[r] = "forward" =>
               is_accumulating[r] = (hist[r].micros < ExpectedMicroSteps - 1)
        /\ pc[r] \in {"clip", "inner_step"} =>
               /\ hist[r].communicated
               /\ hist[r].deferred = ExpectedMicroSteps - 1
               /\ hist[r].micros = ExpectedMicroSteps
        /\ (pc[r] \in {"batch", "forward"} /\ hist[r].micros = 0) =>
               /\ grad[r] = Zeros
               /\ acc[r] = [t \in Ranks |-> Zeros]

C10_Witness ==
    \E r \in Ranks :
        /\ ExpectedMicroSteps = 2
        /\ pc[r] = "clip"
        /\ hist[r].deferred = 1
        /\ hist[r].inner_total >= 1

\* ========================================================= claims C11 - C19
\* The process got past both assertions of lines 122-126.
PastAsserts ==
    \/ boot.pc \in {"device_mesh", "get_group", "ready", "training"}
    \/ boot.error \in {"RuntimeError", "IndexError"}

\* world_size divides total_batch_size and per_device divides the quotient.
DivisorChain ==
    /\ boot.total_batch_size % boot.world_size = 0
    /\ boot.per_device > 0
    /\ (boot.total_batch_size \div boot.world_size) % boot.per_device = 0

\* C11: when world_size divides total_batch_size and the per-device batch size
\* divides total_batch_size / world_size, gradient_accumulation_steps is a
\* positive integer with gradient_accumulation_steps * world_size * per_device
\* = total_batch_size; for every other combination the setup fails at the
\* assertions, before anything else runs.
C11_AccumulationStepsOrFailure ==
    /\ (DivisorChain /\ PastAsserts) =>
           /\ boot.gas >= 1
           /\ boot.gas * boot.world_size * boot.per_device = boot.total_batch_size
    /\ ~DivisorChain => ~PastAsserts

\* C12: when world_size % local_world_size # 0 the topology construction fails
\* before any process group is built, and the process never gets to its groups
\* or into the training loop.
C12_IndivisibleWorldFails ==
    boot.world_size % boot.local_world_size # 0 =>
        /\ ~boot.groups_built
        /\ boot.pc \notin {"get_group", "ready", "training"}

\* C13: for an accepted world_size and local_world_size, world_size = nodes *
\* devices_per_node; every rank is in exactly one local group (the
\* devices_per_node ranks of its node) and exactly one global group (nodes
\* ranks, one per node); two ranks share a global group exactly when they have
\* the same position within their node.
C13_GroupsPartitionTheWorld ==
    boot.pc \in {"ready", "training"} =>
        LET w == boot.world_size
            lws == boot.local_world_size
            World == 0 .. (w - 1)
            Local(a) == LocalGroupOf(w, lws, a)
            Global(a) == GlobalGroupOf(w, lws, a)
        IN
        /\ w = boot.nnodes * lws
        /\ boot.local_pg = {s \in World : s \div lws = boot.rank \div lws}
        /\ Cardinality(boot.local_pg) = lws
        /\ Cardinality(boot.global_pg) = boot.nnodes
        /\ \A a \in boot.global_pg, b \in boot.global_pg : a # b => a \div lws # b \div lws
        /\ \A a \in World :
              /\ a \in Local(a)
              /\ a \in Global(a)
              /\ \A b \in World :
                    /\ Local(a) = Local(b) \/ Local(a) \cap Local(b) = {}
                    /\ Global(a) = Global(b) \/ Global(a) \cap Global(b) = {}
                    /\ b \in Global(a) <=> (a % lws = b % lws)

\* C14: only rank 0 writes to the metric sink; it writes exactly one record per
\* inner optimizer step it has run, and the steps of consecutive records
\* increase by exactly one.
C14_OnlyRankZeroLogs ==
    /\ \A r \in Ranks \ {0} : metric_log[r] = <<>>
    /\ Len(metric_log[0]) = hist[0].inner_total
    /\ \A j \in 1 .. (Len(metric_log[0]) - 1) :
           metric_log[0][j + 1].step = metric_log[0][j].step + 1

C14_Witness ==
    /\ Len(metric_log[0]) >= local_steps + 1
    /\ \A r \in Ranks : hist[r].inner_total >= local_steps + 1

\* The sum of the scaled losses of a sequence of micro-batches.
RECURSIVE ScaledLossSum(_)
ScaledLossSum(bs) ==
    IF bs = <<>> THEN 0
    ELSE (LossOf(Head(bs)) \div gradient_accumulation_steps) + ScaledLossSum(Tail(bs))

\* C15: on every rank the running loss is zero at the start of every inner
\* step and is the sum of the scaled losses of the micro-steps the current
\* inner step has run; the loss of the j-th metric record is the sum over
\* exactly the gradient_accumulation_steps micro-batches of the j-th inner step.
C15_LossIsPerInnerStep ==
    /\ \A r \in Ranks :
          /\ Len(hist[r].step_batches) = hist[r].micros
          /\ loss_batch[r] = ScaledLossSum(hist[r].step_batches)
          /\ hist[r].micros = 0 => loss_batch[r] = 0
    /\ \A j \in 1 .. Len(metric_log[0]) :
          /\ Len(hist[0].step_log[j]) = gradient_accumulation_steps
          /\ \A k \in 1 .. gradient_accumulation_steps :
                hist[0].step_log[j][k] =
                    BatchAt(StreamOf(dataset, 0), (j - 1) * gradient_accumulation_steps + k - 1)
          /\ metric_log[0][j].Loss = ScaledLossSum(hist[0].step_log[j])

C15_Witness ==
    /\ gradient_accumulation_steps = 2
    /\ Len(metric_log[0]) >= local_steps + 1
    /\ metric_log[0][local_steps + 1].Loss > 0
    /\ \E r \in Ranks \ {0} : outer_step[r] = 1 /\ hist[r].micros = 1 /\ loss_batch[r] > 0

\* The positions of the training loop, and those of an outer synchronization.
LoopPositions ==
    {"batch", "forward", "clip", "inner_step", "pseudo_grad", "all_reduce", "outer_step",
     "zero_grad", "write_back", "increment"}
SyncPositions == {"pseudo_grad", "all_reduce", "outer_step", "zero_grad", "write_back", "increment"}

\* C16: the training loop has no terminal state: a rank is always at a
\* position of the loop, a completed round leads back to the first micro-step of
\* the next one, and the position after the loop (metric_logger.finish) is
\* never reached.
C16_NeverTerminates ==
    /\ \A r \in Ranks : pc[r] \in LoopPositions /\ pc[r] # "finish"
    /\ \A r \in Ranks : hist[r].writebacks >= 1 /\ pc[r] \notin SyncPositions =>
           pc[r] \in InnerPhase /\ outer_step[r] = hist[r].writebacks

C16_Witness ==
    \A r \in Ranks : outer_step[r] = MaxRounds /\ pc[r] = "batch"

\* How many of a round's steps a rank at position q has behind it.
Behind(q, done) == IF q \in done THEN 1 ELSE 0

C18_SyncOrder ==
    \A r \in Ranks :
        LET k == outer_step[r]
            q == pc[r]
        IN
        \* each step exactly once per round, in the order of the positions
        /\ \A p \in Params :
              /\ hist[r].round_calls[p] =
                    IF q \in {"outer_step", "zero_grad", "write_back"} THEN 1
                    ELSE IF q \in {"pseudo_grad", "all_reduce"} /\ p < pidx[r] THEN 1
                    ELSE 0
              /\ Len(pgrad[r][p]) =
                    IF q \in {"outer_step", "zero_grad"} THEN 1
                    ELSE IF q = "pseudo_grad" /\ p < pidx[r] THEN 1
                    ELSE IF q = "all_reduce" /\ p <= pidx[r] THEN 1
                    ELSE 0
        /\ hist[r].syncs = k + Behind(q, {"zero_grad", "write_back", "increment"})
        /\ hist[r].zeroed = k + Behind(q, {"write_back", "increment"})
        /\ hist[r].writebacks = k + Behind(q, {"increment"})
        \* outside an outer synchronization no pseudo-gradient is held
        /\ q \notin SyncPositions => \A p \in Params : pgrad[r][p] = <<>>

\* C18: within an outer synchronization the steps come in the order
\* pseudo-gradient and all-reduce of every parameter, outer optimizer step,
\* clearing of the pseudo-gradients, write-back, outer_step += 1, each exactly
\* once per round; outside it no offloaded parameter carries a pseudo-gradient
\* and the state of the outer optimizer does not change.
C18_OuterSyncOrder ==
    /\ []C18_SyncOrder
    /\ [][\A r \in Ranks :
             /\ momentum_buffer'[r] # momentum_buffer[r] =>
                    pc[r] = "outer_step" /\ pc'[r] = "zero_grad"
             /\ pc[r] = "outer_step" /\ pc'[r] # pc[r] =>
                    \A p \in Params :
                        momentum_buffer'[r][p] = SGDBuffer(momentum_buffer[r][p], pgrad[r][p][1])
             /\ outer_step'[r] # outer_step[r] =>
                    pc[r] = "increment" /\ outer_step'[r] = outer_step[r] + 1]_vars

C18_Witness ==
    \E r \in Ranks :
        /\ outer_step[r] = 1
        /\ pc[r] = "zero_grad"
        /\ hist[r].syncs = 2
        /\ \E p \in Params : momentum_buffer[r][p] # 0

\* C17: the write-back round-trips: after a full parameter value x has been
\* written into the live parameters, the snapshot taken next equals x, and it
\* is a copy of its own that later changes of the live parameters leave as it
\* was.
C17_WriteBackRoundTrips ==
    rt.pc = "train" =>
        /\ rt.tensors[rt.snap] = rt.x0
        /\ rt.snap # rt.data
        /\ rt.edits = 0 => rt.tensors[rt.snap] = RtLive

C17_Witness ==
    /\ rt.pc = "train"
    /\ rt.x_device = "cuda"
    /\ rt.edits = MaxEdits
    /\ \A p \in Params : RtLive[p] # rt.x0[p]
    /\ rt.x0 # InitialParams

\* C19: the job is deadlock-free: with every rank scheduled fairly and a batch
\* provider that always returns a batch, every rank reaches every outer_step
\* k (here up to MaxRounds, where the model stops the loop).
C19_EveryRankCompletesEveryRound ==
    <>(\A r \in Ranks : outer_step[r] = MaxRounds)

C19_Witness ==
    \A r \in Ranks :
        /\ outer_step[r] = MaxRounds
        /\ hist[r].inner_total = MaxRounds * local_steps
        /\ hist[r].global_calls = MaxRounds * NumParams

====
